---- MODULE Spec2Model ----
(***************************************************************************)
(* Model of src/src/tserver/tablet_server_main.cc: the tablet server's     *)
(* entry point TabletServerMain, the demo tablet bootstrap                 *)
(* (TemporaryTabletsForDemos) and the two maintenance threads FlushThread  *)
(* and CompactThread.                                                      *)
(*                                                                         *)
(* The collaborators (TabletServer, TabletMetadata, Tablet, TabletPeer,    *)
(* TabletManager) are outside the file: every Status they return and every *)
(* MemRowSetSize() reading is an input chosen with \E.                     *)
(*                                                                         *)
(* CHECK_OK(s) evaluates s and, when s is not OK, logs fatally and aborts  *)
(* the process; the failing return and the abort are one step here.        *)
(***************************************************************************)
EXTENDS Integers, Sequences, FiniteSets, TLC

(***************************************************************************)
(* Bounds of the model.                                                    *)
(***************************************************************************)
MaxFlushIter == 3       \* iterations of the FlushThread loop explored
MaxCompactIter == 2     \* iterations of the CompactThread loop explored
MaxMainSleeps == 1      \* iterations of main's final sleep loop explored
MaxPositional == 1      \* positional arguments left after flag parsing

(***************************************************************************)
(* Program constants.                                                      *)
(***************************************************************************)
DefaultFlushThresholdMb == 64     \* DEFINE_int32(flush_threshold_mb, 64, ..)
Int32Bits == 32                   \* DEFINE_int32: the flag is a 32-bit int
Kilo == 1024                      \* each factor of "* 1024 * 1024"
FlushPollInMicros == 250 * 1000
FlushPollMs == 250                \* usleep(250 * 1000)
COMPACT_NO_FLAGS == 0             \* Tablet::COMPACT_NO_FLAGS
UsageExitStatus == 1              \* return 1 after the usage message

MB == Kilo * Kilo

(***************************************************************************)
(* Byte quantities.  TLC's integers are 32 bits wide, so a 64-bit quantity *)
(* is kept in limbs: the value is top * 2^64 + mb * 2^20 + b with          *)
(* 0 <= b < 2^20.  A signed quantity has no top limb and may have mb < 0.  *)
(***************************************************************************)
Bytes(n) == [top |-> 0, mb |-> n \div MB, b |-> n % MB]

SignedWide(n) == [mb |-> n \div MB, b |-> n % MB]

\* Order of two unsigned 64-bit quantities.
Less(x, y) ==
  \/ x.top < y.top
  \/ x.top = y.top /\ x.mb < y.mb
  \/ x.top = y.top /\ x.mb = y.mb /\ x.b < y.b

\* x * 1024 in 32-bit two's complement: the result depends on the low
\* 22 bits of x only, and its sign on bit 21.
Int32Times1024(x) ==
  LET m == 2 ^ (Int32Bits - 10)
      low == x % m
  IN (IF low >= m \div 2 THEN low - m ELSE low) * Kilo

\* The values FLAGS_flush_threshold_mb can be given on the command line.
FlagValues == {-1, 0, DefaultFlushThresholdMb, 2048}

\* MemRowSetSize() readings, in bytes.
UsageReadings ==
  {Bytes(0), Bytes(10 * MB), Bytes(64 * MB), Bytes(64 * MB + 1),
   Bytes(70 * MB)}

\* FLAGS_flush_threshold_mb * 1024 * 1024, an int expression.  When the
\* product does not fit in 32 bits the signed overflow is undefined: the
\* build yields either the wrapped two's-complement value or, when the
\* multiplication is carried out in the 64-bit width of the comparison, the
\* mathematical product.
ThresholdExpr(v) ==
  LET wrapped == SignedWide(Int32Times1024(Int32Times1024(v)))
      product == [mb |-> v, b |-> 0]
  IN IF wrapped = product THEN {product} ELSE {wrapped, product}

\* The usual arithmetic conversions of the comparison with a size_t:
\* the int operand is converted to unsigned 64 bits (negative n to 2^64 + n).
ToSizeT(s) == [top |-> IF s.mb < 0 THEN 1 ELSE 0, mb |-> s.mb, b |-> s.b]

CheckOkNeverAborts(ok) == FALSE

CheckOkInverted(ok) == ok

CompactIntervalOfFlush == FlushPollMs

\* usleep(3000 * 1000)
CompactIntervalMs == 3000

\* CHECK_OK(status): TRUE when the process aborts.
CHECK_OK(ok) == ~ok

(***************************************************************************)
(* State.                                                                  *)
(***************************************************************************)
VARIABLES
  pc,                 \* statement the main thread is at
  argc,               \* argc after ParseCommandLineFlags
  FLAGS_flush_threshold_mb,
  exit_status,        \* <<value returned by TabletServerMain>>, <<>> before
  aborted,            \* the process was aborted by a failed CHECK_OK
  failed,             \* the call whose Status was not OK, or "none"
  trace,              \* bootstrap calls made so far, in order, with results
  calls,              \* number of calls made, per callee
  twitter_tablet_,    \* the shared_ptr<Tablet> of TemporaryTabletsForDemos
  peer_state,         \* lifecycle of the TabletPeer
  registered,         \* the peer is in the TabletManager
  server_started,     \* server.Start() returned OK
  main_sleeps,        \* sleep(60) calls of main's final loop
  compact_pc,         \* position of CompactThread
  compact_tablet,     \* the Tablet* CompactThread was given
  compact_flags,      \* flags of every Compact call made
  compact_sleeps,     \* usleep calls of CompactThread
  compact_clock,      \* milliseconds CompactThread has slept
  flush_pc,           \* position of FlushThread
  flush_tablet,       \* the Tablet* FlushThread was given
  flush_log,          \* per iteration: reading u, threshold expression e,
                      \* threshold compared t, Flush invoked
  flush_sleeps,       \* usleep calls of FlushThread
  flush_clock,        \* milliseconds FlushThread has slept
  metadata_store,     \* what the fs_manager holds for the master block
  meta,               \* the gscoped_ptr<TabletMetadata> of the constructor
  inflight,           \* calls on the tablet issued and not yet returned
  overlaps            \* orders in which a Flush and a Compact have overlapped

metaVars == <<metadata_store, meta>>
mainVars == <<pc, argc, FLAGS_flush_threshold_mb, exit_status, trace,
              twitter_tablet_, peer_state, registered, server_started,
              main_sleeps, metaVars>>
compactVars == <<compact_pc, compact_tablet, compact_flags, compact_sleeps,
                 compact_clock>>
flushVars == <<flush_pc, flush_tablet, flush_log, flush_sleeps, flush_clock>>
tabletVars == <<inflight, overlaps>>
vars == <<mainVars, compactVars, flushVars, tabletVars, aborted, failed,
          calls>>

ShouldFlushAtOrAbove(usage, threshold) == ~Less(usage, threshold)

ShouldFlushUnlessJustFlushed(usage, threshold) ==
  /\ Less(threshold, usage)
  /\ ~(flush_log # <<>> /\ flush_log[Len(flush_log)].flushed)

\* tablet->MemRowSetSize() > FLAGS_flush_threshold_mb * 1024 * 1024
ShouldFlush(usage, threshold) == Less(threshold, usage)

Callees == {"ServerInit", "LoadOrCreate", "Open", "NewTabletPeer", "PeerInit",
            "PeerStart", "RegisterTablet", "ServerStart", "MemRowSetSize",
            "Flush", "Compact"}

Init ==
  /\ pc = "parse"
  /\ argc = 1
  /\ FLAGS_flush_threshold_mb = DefaultFlushThresholdMb
  /\ exit_status = <<>>
  /\ aborted = FALSE
  /\ failed = "none"
  /\ trace = <<>>
  /\ calls = [c \in Callees |-> 0]
  /\ twitter_tablet_ = "null"
  /\ peer_state = "none"
  /\ registered = FALSE
  /\ server_started = FALSE
  /\ main_sleeps = 0
  /\ compact_pc = "none"
  /\ compact_tablet = "null"
  /\ compact_flags = {}
  /\ compact_sleeps = 0
  /\ compact_clock = 0
  /\ flush_pc = "none"
  /\ flush_tablet = "null"
  /\ flush_log = <<>>
  /\ flush_sleeps = 0
  /\ flush_clock = 0
  /\ metadata_store \in {"absent", "present"}
  /\ meta = "null"
  /\ inflight = [op \in {"Flush", "Compact"} |-> 0]
  /\ overlaps = {}

\* The process is alive: not aborted and main has not returned.
Running == ~aborted /\ exit_status = <<>>

AfterInitBeforeStart ==
  [parse |-> "server_init", server_init |-> "load_meta",
   load_meta |-> "open", open |-> "new_peer", new_peer |-> "peer_start",
   peer_start |-> "peer_init", peer_init |-> "register",
   register |-> "spawn_compact", spawn_compact |-> "spawn_flush",
   spawn_flush |-> "server_start", server_start |-> "serving"]

AfterStartBeforeThreads ==
  [parse |-> "server_init", server_init |-> "load_meta",
   load_meta |-> "open", open |-> "new_peer", new_peer |-> "peer_init",
   peer_init |-> "peer_start", peer_start |-> "register",
   register |-> "server_start", server_start |-> "spawn_compact",
   spawn_compact |-> "spawn_flush", spawn_flush |-> "serving"]

AfterLoadBeforeInit ==
  [parse |-> "load_meta", load_meta |-> "server_init",
   server_init |-> "open", open |-> "new_peer", new_peer |-> "peer_init",
   peer_init |-> "peer_start", peer_start |-> "register",
   register |-> "spawn_compact", spawn_compact |-> "spawn_flush",
   spawn_flush |-> "server_start", server_start |-> "serving"]

\* Statement order of TabletServerMain (with the constructor of
\* TemporaryTabletsForDemos inlined at line 101).
After ==
  [parse |-> "server_init", server_init |-> "load_meta",
   load_meta |-> "open", open |-> "new_peer", new_peer |-> "peer_init",
   peer_init |-> "peer_start", peer_start |-> "register",
   register |-> "spawn_compact", spawn_compact |-> "spawn_flush",
   spawn_flush |-> "server_start", server_start |-> "serving"]

\* TabletMetadata::LoadOrCreate: load the metadata of the master block when
\* the store has it, create it otherwise.
LoadOrCreateOutcome(store) == IF store = "absent" THEN "created" ELSE "loaded"

\* A call made under CHECK_OK: count it, record a failure, abort on failure,
\* otherwise go on to the next statement.
Checked(callee, ok) ==
  /\ calls' = [calls EXCEPT ![callee] = @ + 1]
  /\ failed' = IF ok THEN failed ELSE callee
  /\ aborted' = CHECK_OK(ok)

UsageErrorNever(n) == n < 1

\* Line 89: if (argc != 1).
UsageError(n) == n # 1

(***************************************************************************)
(* TabletServerMain                                                        *)
(***************************************************************************)
\* Lines 87-92: parse the flags; any positional argument left is a usage
\* error and main returns 1.
ParseCommandLine ==
  /\ Running /\ pc = "parse"
  /\ \E v \in FlagValues, n \in 0..MaxPositional :
       /\ FLAGS_flush_threshold_mb' = v
       /\ argc' = 1 + n
       /\ IF UsageError(1 + n)
            THEN /\ exit_status' = <<UsageExitStatus>>
                 /\ pc' = "returned"
            ELSE /\ exit_status' = exit_status
                 /\ pc' = After[pc]
  /\ UNCHANGED <<tabletVars, metaVars, trace, twitter_tablet_, peer_state, registered,
                 server_started, main_sleeps, compactVars, flushVars,
                 aborted, failed, calls>>

\* Lines 94-98: CHECK_OK(server.Init()).
ServerInit ==
  /\ Running /\ pc = "server_init"
  /\ \E ok \in BOOLEAN :
       /\ Checked("ServerInit", ok)
       /\ pc' = IF aborted' THEN pc ELSE After[pc]
  /\ UNCHANGED <<tabletVars, metaVars, argc, FLAGS_flush_threshold_mb, exit_status, trace,
                 twitter_tablet_, peer_state, registered, server_started,
                 main_sleeps, compactVars, flushVars>>

\* Lines 43-49: CHECK_OK(TabletMetadata::LoadOrCreate(..)).  The call fails
\* when the store is corrupt or unreadable; otherwise it loads the metadata
\* the store holds or creates and persists new metadata.
LoadOrCreate ==
  /\ Running /\ pc = "load_meta"
  /\ \E ok \in BOOLEAN :
       /\ Checked("LoadOrCreate", ok)
       /\ trace' = Append(trace, [ev |-> "LoadOrCreate", ok |-> ok])
       /\ meta' = IF ok THEN LoadOrCreateOutcome(metadata_store) ELSE meta
       /\ metadata_store' = IF ok THEN "present" ELSE metadata_store
       /\ pc' = IF aborted' THEN pc ELSE After[pc]
  /\ UNCHANGED <<tabletVars, argc, FLAGS_flush_threshold_mb, exit_status,
                 twitter_tablet_, peer_state, registered, server_started,
                 main_sleeps, compactVars, flushVars>>

\* Lines 51-52: twitter_tablet_.reset(new Tablet(meta.Pass()));
\* CHECK_OK(twitter_tablet_->Open()).
TabletOpen ==
  /\ Running /\ pc = "open"
  /\ twitter_tablet_' = "twitter"
  /\ meta' = "null"
  /\ \E ok \in BOOLEAN :
       /\ Checked("Open", ok)
       /\ trace' = Append(trace, [ev |-> "Open", ok |-> ok])
       /\ pc' = IF aborted' THEN pc ELSE After[pc]
  /\ UNCHANGED <<tabletVars, metadata_store, argc, FLAGS_flush_threshold_mb,
                 exit_status, peer_state, registered, server_started,
                 main_sleeps, compactVars, flushVars>>

\* Line 103: new TabletPeer(demo_setup.twitter_tablet()).
NewTabletPeer ==
  /\ Running /\ pc = "new_peer"
  /\ peer_state' = "Created"
  /\ calls' = [calls EXCEPT !["NewTabletPeer"] = @ + 1]
  /\ trace' = Append(trace, [ev |-> "NewTabletPeer", ok |-> TRUE])
  /\ pc' = After[pc]
  /\ UNCHANGED <<tabletVars, metaVars, argc, FLAGS_flush_threshold_mb, exit_status,
                 twitter_tablet_, registered, server_started, main_sleeps,
                 compactVars, flushVars, aborted, failed>>

\* Line 104: CHECK_OK(tablet_peer->Init()).
PeerInit ==
  /\ Running /\ pc = "peer_init"
  /\ \E ok \in BOOLEAN :
       /\ Checked("PeerInit", ok)
       /\ trace' = Append(trace, [ev |-> "PeerInit", ok |-> ok])
       /\ peer_state' = IF ok THEN "Initialized" ELSE peer_state
       /\ pc' = IF aborted' THEN pc ELSE After[pc]
  /\ UNCHANGED <<tabletVars, metaVars, argc, FLAGS_flush_threshold_mb, exit_status,
                 twitter_tablet_, registered, server_started, main_sleeps,
                 compactVars, flushVars>>

\* Line 105: CHECK_OK(tablet_peer->Start()).
PeerStart ==
  /\ Running /\ pc = "peer_start"
  /\ \E ok \in BOOLEAN :
       /\ Checked("PeerStart", ok)
       /\ trace' = Append(trace, [ev |-> "PeerStart", ok |-> ok])
       /\ peer_state' = IF ok THEN "Started" ELSE peer_state
       /\ pc' = IF aborted' THEN pc ELSE After[pc]
  /\ UNCHANGED <<tabletVars, metaVars, argc, FLAGS_flush_threshold_mb, exit_status,
                 twitter_tablet_, registered, server_started, main_sleeps,
                 compactVars, flushVars>>

\* Line 107: server.tablet_manager()->RegisterTablet(tablet_peer).
RegisterTablet ==
  /\ Running /\ pc = "register"
  /\ registered' = TRUE
  /\ calls' = [calls EXCEPT !["RegisterTablet"] = @ + 1]
  /\ trace' = Append(trace, [ev |-> "RegisterTablet", ok |-> TRUE])
  /\ pc' = After[pc]
  /\ UNCHANGED <<tabletVars, metaVars, argc, FLAGS_flush_threshold_mb, exit_status,
                 twitter_tablet_, peer_state, server_started, main_sleeps,
                 compactVars, flushVars, aborted, failed>>

\* Line 114: boost::thread compact_thread(CompactThread, tablet).
StartCompactThread ==
  /\ Running /\ pc = "spawn_compact"
  /\ compact_pc' = "call"
  /\ compact_tablet' = twitter_tablet_
  /\ pc' = After[pc]
  /\ UNCHANGED <<tabletVars, metaVars, argc, FLAGS_flush_threshold_mb, exit_status, trace,
                 twitter_tablet_, peer_state, registered, server_started,
                 main_sleeps, compact_flags, compact_sleeps, compact_clock,
                 flushVars, aborted, failed, calls>>

\* Line 115: boost::thread flush_thread(FlushThread, tablet).
StartFlushThread ==
  /\ Running /\ pc = "spawn_flush"
  /\ flush_pc' = "check"
  /\ flush_tablet' = twitter_tablet_
  /\ pc' = After[pc]
  /\ UNCHANGED <<tabletVars, metaVars, argc, FLAGS_flush_threshold_mb, exit_status, trace,
                 twitter_tablet_, peer_state, registered, server_started,
                 main_sleeps, compactVars, flush_log, flush_sleeps,
                 flush_clock, aborted, failed, calls>>

\* Line 118: CHECK_OK(server.Start()).
ServerStart ==
  /\ Running /\ pc = "server_start"
  /\ \E ok \in BOOLEAN :
       /\ Checked("ServerStart", ok)
       /\ server_started' = ok
       /\ pc' = IF aborted' THEN pc ELSE After[pc]
  /\ UNCHANGED <<tabletVars, metaVars, argc, FLAGS_flush_threshold_mb, exit_status, trace,
                 twitter_tablet_, peer_state, registered, main_sleeps,
                 compactVars, flushVars>>

\* Lines 121-123: while (true) sleep(60).
MainSleep ==
  /\ Running /\ pc = "serving"
  /\ main_sleeps < MaxMainSleeps
  /\ main_sleeps' = main_sleeps + 1
  /\ UNCHANGED <<tabletVars, metaVars, pc, argc, FLAGS_flush_threshold_mb, exit_status, trace,
                 twitter_tablet_, peer_state, registered, server_started,
                 compactVars, flushVars, aborted, failed, calls>>

(***************************************************************************)
(* FlushThread                                                             *)
(***************************************************************************)
\* Line 69, and the call of line 70 when the condition holds: read the
\* memrowset size, compare it with the threshold, invoke Flush().
FlushCheck ==
  /\ Running /\ flush_pc = "check"
  /\ Len(flush_log) < MaxFlushIter
  /\ \E u \in UsageReadings, e \in ThresholdExpr(FLAGS_flush_threshold_mb) :
       LET t == ToSizeT(e)
           go == ShouldFlush(u, t)
       IN /\ flush_log' = Append(flush_log,
                                 [u |-> u, e |-> e, t |-> t, flushed |-> go])
          /\ flush_pc' = IF go THEN "in_flush" ELSE "sleep"
          /\ calls' = [calls EXCEPT !["MemRowSetSize"] = @ + 1,
                                    !["Flush"] = IF go THEN @ + 1 ELSE @]
          /\ inflight' = [inflight EXCEPT
                            !["Flush"] = IF go THEN @ + 1 ELSE @]
          /\ overlaps' = IF go /\ inflight["Compact"] > 0
                           THEN overlaps \cup {"compact_then_flush"}
                           ELSE overlaps
  /\ UNCHANGED <<mainVars, compactVars, flush_tablet, flush_sleeps,
                 flush_clock, aborted, failed>>

\* Line 70: Flush() returns; CHECK_OK of its Status.
FlushReturn ==
  /\ Running /\ flush_pc = "in_flush"
  /\ \E ok \in BOOLEAN :
       /\ failed' = IF ok THEN failed ELSE "Flush"
       /\ aborted' = CHECK_OK(ok)
       /\ flush_pc' = IF aborted' THEN flush_pc ELSE "sleep"
  /\ inflight' = [inflight EXCEPT !["Flush"] = @ - 1]
  /\ UNCHANGED overlaps
  /\ UNCHANGED <<mainVars, compactVars, flush_tablet, flush_log,
                 flush_sleeps, flush_clock, calls>>

FlushSleepWaitsForCompact ==
  /\ Running /\ flush_pc = "sleep"
  /\ inflight["Compact"] = 0
  /\ flush_sleeps' = flush_sleeps + 1
  /\ flush_clock' = flush_clock + FlushPollMs
  /\ flush_pc' = "check"
  /\ UNCHANGED <<tabletVars, mainVars, compactVars, flush_tablet, flush_log,
                 aborted, failed, calls>>

\* Line 74: usleep(250 * 1000).
FlushSleep ==
  /\ Running /\ flush_pc = "sleep"
  /\ flush_sleeps' = flush_sleeps + 1
  /\ flush_clock' = flush_clock + FlushPollMs
  /\ flush_pc' = "check"
  /\ UNCHANGED <<tabletVars, mainVars, compactVars, flush_tablet, flush_log, aborted,
                 failed, calls>>

(***************************************************************************)
(* CompactThread                                                           *)
(***************************************************************************)
CompactCallWhenFlushIdle ==
  /\ Running /\ compact_pc = "call"
  /\ inflight["Flush"] = 0
  /\ calls["Compact"] < MaxCompactIter
  /\ calls' = [calls EXCEPT !["Compact"] = @ + 1]
  /\ compact_flags' = compact_flags \cup {COMPACT_NO_FLAGS}
  /\ compact_pc' = "in_compact"
  /\ inflight' = [inflight EXCEPT !["Compact"] = @ + 1]
  /\ UNCHANGED <<overlaps, mainVars, flushVars, compact_tablet,
                 compact_sleeps, compact_clock, aborted, failed>>

CompactCallNoWait ==
  /\ Running /\ compact_pc = "call"
  /\ calls["Compact"] < MaxCompactIter
  /\ calls' = [calls EXCEPT !["Compact"] = @ + 1]
  /\ compact_flags' = compact_flags \cup {COMPACT_NO_FLAGS}
  /\ compact_pc' = "sleep"
  /\ inflight' = [inflight EXCEPT !["Compact"] = @ + 1]
  /\ overlaps' = IF inflight["Flush"] > 0
                   THEN overlaps \cup {"flush_then_compact"}
                   ELSE overlaps
  /\ UNCHANGED <<mainVars, flushVars, compact_tablet, compact_sleeps,
                 compact_clock, aborted, failed>>

\* Line 80: invoke tablet->Compact(Tablet::COMPACT_NO_FLAGS).
CompactCall ==
  /\ Running /\ compact_pc = "call"
  /\ calls["Compact"] < MaxCompactIter
  /\ calls' = [calls EXCEPT !["Compact"] = @ + 1]
  /\ compact_flags' = compact_flags \cup {COMPACT_NO_FLAGS}
  /\ compact_pc' = "in_compact"
  /\ inflight' = [inflight EXCEPT !["Compact"] = @ + 1]
  /\ overlaps' = IF inflight["Flush"] > 0
                   THEN overlaps \cup {"flush_then_compact"}
                   ELSE overlaps
  /\ UNCHANGED <<mainVars, flushVars, compact_tablet, compact_sleeps,
                 compact_clock, aborted, failed>>

\* Line 80: Compact() returns; CHECK_OK of its Status.
CompactReturn ==
  /\ Running /\ compact_pc = "in_compact"
  /\ \E ok \in BOOLEAN :
       /\ failed' = IF ok THEN failed ELSE "Compact"
       /\ aborted' = CHECK_OK(ok)
       /\ compact_pc' = IF aborted' THEN compact_pc ELSE "sleep"
  /\ inflight' = [inflight EXCEPT !["Compact"] = @ - 1]
  /\ UNCHANGED overlaps
  /\ UNCHANGED <<mainVars, flushVars, compact_tablet, compact_flags,
                 compact_sleeps, compact_clock, calls>>

\* Line 82: usleep(3000 * 1000).
CompactSleep ==
  /\ Running /\ compact_pc = "sleep"
  /\ compact_sleeps' = compact_sleeps + 1
  /\ compact_clock' = compact_clock + CompactIntervalMs
  /\ compact_pc' = "call"
  /\ UNCHANGED <<tabletVars, mainVars, flushVars, compact_tablet, compact_flags,
                 aborted, failed, calls>>

Next ==
  \/ ParseCommandLine
  \/ ServerInit
  \/ LoadOrCreate
  \/ TabletOpen
  \/ NewTabletPeer
  \/ PeerInit
  \/ PeerStart
  \/ RegisterTablet
  \/ StartCompactThread
  \/ StartFlushThread
  \/ ServerStart
  \/ MainSleep
  \/ FlushCheck
  \/ FlushReturn
  \/ FlushSleep
  \/ CompactCall
  \/ CompactReturn
  \/ CompactSleep

Spec == Init /\ [][Next]_vars

(***************************************************************************)
(* The same program with the loops unbounded.  The per-iteration records   *)
(* (flush_log, calls of the threads, clocks) are not kept and the sleep    *)
(* counters stop at their bounds, so that the three loops run forever in   *)
(* a finite state space.                                                   *)
(***************************************************************************)
Min(a, b) == IF a < b THEN a ELSE b

\* Lines 121-123: while (true) sleep(60).
MainSleepForever ==
  /\ Running /\ pc = "serving"
  /\ main_sleeps' = Min(main_sleeps + 1, MaxMainSleeps)
  /\ UNCHANGED <<tabletVars, metaVars, pc, argc, FLAGS_flush_threshold_mb,
                 exit_status, trace, twitter_tablet_, peer_state, registered,
                 server_started, compactVars, flushVars, aborted, failed,
                 calls>>

\* Lines 69-70: the check of one iteration and the call of Flush().
FlushCheckForever ==
  /\ Running /\ flush_pc = "check"
  /\ \E u \in UsageReadings, e \in ThresholdExpr(FLAGS_flush_threshold_mb) :
       LET go == ShouldFlush(u, ToSizeT(e))
       IN /\ flush_pc' = IF go THEN "in_flush" ELSE "sleep"
          /\ inflight' = [inflight EXCEPT
                            !["Flush"] = IF go THEN @ + 1 ELSE @]
          /\ overlaps' = IF go /\ inflight["Compact"] > 0
                           THEN overlaps \cup {"compact_then_flush"}
                           ELSE overlaps
  /\ UNCHANGED <<mainVars, compactVars, flush_tablet, flush_log,
                 flush_sleeps, flush_clock, aborted, failed, calls>>

FlushSleepThenExit ==
  /\ Running /\ flush_pc = "sleep"
  /\ flush_sleeps' = Min(flush_sleeps + 1, MaxFlushIter)
  /\ flush_clock' = FlushPollMs * flush_sleeps'
  /\ flush_pc' = IF flush_sleeps = MaxFlushIter THEN "none" ELSE "check"
  /\ UNCHANGED <<tabletVars, mainVars, compactVars, flush_tablet, flush_log,
                 aborted, failed, calls>>

\* Lines 74-75: usleep(250 * 1000) and back to the head of the loop.
FlushSleepForever ==
  /\ Running /\ flush_pc = "sleep"
  /\ flush_sleeps' = Min(flush_sleeps + 1, MaxFlushIter)
  /\ flush_clock' = FlushPollMs * flush_sleeps'
  /\ flush_pc' = "check"
  /\ UNCHANGED <<tabletVars, mainVars, compactVars, flush_tablet, flush_log,
                 aborted, failed, calls>>

\* Line 80: invoke tablet->Compact(Tablet::COMPACT_NO_FLAGS).
CompactCallForever ==
  /\ Running /\ compact_pc = "call"
  /\ compact_flags' = compact_flags \cup {COMPACT_NO_FLAGS}
  /\ compact_pc' = "in_compact"
  /\ inflight' = [inflight EXCEPT !["Compact"] = @ + 1]
  /\ overlaps' = IF inflight["Flush"] > 0
                   THEN overlaps \cup {"flush_then_compact"}
                   ELSE overlaps
  /\ UNCHANGED <<mainVars, flushVars, compact_tablet, compact_sleeps,
                 compact_clock, aborted, failed, calls>>

\* Lines 82-83: usleep(3000 * 1000) and back to the head of the loop.
CompactSleepForever ==
  /\ Running /\ compact_pc = "sleep"
  /\ compact_sleeps' = Min(compact_sleeps + 1, MaxCompactIter)
  /\ compact_clock' = CompactIntervalMs * compact_sleeps'
  /\ compact_pc' = "call"
  /\ UNCHANGED <<tabletVars, mainVars, flushVars, compact_tablet,
                 compact_flags, aborted, failed, calls>>

LiveNext ==
  \/ ParseCommandLine
  \/ ServerInit
  \/ LoadOrCreate
  \/ TabletOpen
  \/ NewTabletPeer
  \/ PeerInit
  \/ PeerStart
  \/ RegisterTablet
  \/ StartCompactThread
  \/ StartFlushThread
  \/ ServerStart
  \/ MainSleepForever
  \/ FlushCheckForever
  \/ FlushReturn
  \/ FlushSleepForever
  \/ CompactCallForever
  \/ CompactReturn
  \/ CompactSleepForever

\* The main thread and the two boost threads are scheduled fairly: a thread
\* whose next statement can run eventually runs it.
Fairness ==
  /\ WF_vars(ParseCommandLine) /\ WF_vars(ServerInit)
  /\ WF_vars(LoadOrCreate) /\ WF_vars(TabletOpen)
  /\ WF_vars(NewTabletPeer) /\ WF_vars(PeerInit) /\ WF_vars(PeerStart)
  /\ WF_vars(RegisterTablet) /\ WF_vars(StartCompactThread)
  /\ WF_vars(StartFlushThread) /\ WF_vars(ServerStart)
  /\ WF_vars(FlushCheckForever) /\ WF_vars(FlushReturn)
  /\ WF_vars(FlushSleepForever)
  /\ WF_vars(CompactCallForever) /\ WF_vars(CompactReturn)
  /\ WF_vars(CompactSleepForever)

LiveSpec == Init /\ [][LiveNext]_vars /\ Fairness

(***************************************************************************)
(* Properties.                                                             *)
(***************************************************************************)
BootstrapSequence ==
  <<"LoadOrCreate", "Open", "NewTabletPeer", "PeerInit", "PeerStart",
    "RegisterTablet">>

\* The stages of the bootstrap that can fail.
BootstrapStages == {"LoadOrCreate", "Open", "PeerInit", "PeerStart"}

StageIndex(c) == CHOOSE i \in 1..Len(BootstrapSequence) : BootstrapSequence[i] = c

\* C1: the bootstrap calls occur in the order LoadOrCreate, Open, new
\* TabletPeer, Init, Start, RegisterTablet, each at most once and each only
\* after all earlier ones returned OK; the peer goes Created, Initialized,
\* Started and is registered only when Started.
C1_BootstrapOrdered ==
  /\ Len(trace) <= Len(BootstrapSequence)
  /\ \A i \in 1..Len(trace) :
       /\ trace[i].ev = BootstrapSequence[i]
       /\ i < Len(trace) => trace[i].ok
  /\ \A c \in {BootstrapSequence[i] : i \in 1..Len(BootstrapSequence)} :
       calls[c] = Cardinality({i \in 1..Len(trace) : trace[i].ev = c})
  /\ peer_state = "none" <=> Len(trace) < 3
  /\ peer_state = "Created" => Len(trace) \in {3, 4}
  /\ peer_state = "Initialized" => Len(trace) \in {4, 5} /\ trace[4].ok
  /\ peer_state = "Started" => Len(trace) \in {5, 6} /\ trace[5].ok
  /\ registered => peer_state = "Started" /\ Len(trace) = 6

C1_Witness ==
  /\ registered
  /\ peer_state = "Started"
  /\ [i \in 1..Len(trace) |-> trace[i].ev] = BootstrapSequence

\* C2: once a bootstrap stage has failed the process is aborted, no
\* maintenance thread was or is launched, server.Start() is not called and
\* the peer is not registered.
C2_FailedBootstrapNeverServes ==
  failed \in BootstrapStages =>
    /\ aborted
    /\ compact_pc = "none" /\ flush_pc = "none"
    /\ calls["MemRowSetSize"] = 0 /\ calls["Flush"] = 0
    /\ calls["Compact"] = 0
    /\ calls["RegisterTablet"] = 0 /\ ~registered
    /\ calls["ServerStart"] = 0 /\ ~server_started

C2_Witness == failed = "PeerStart" /\ aborted /\ peer_state = "Initialized"

\* C3: a failure of bootstrap stage k leaves every later stage with zero
\* calls; in particular a failed LoadOrCreate leaves Open, Init, Start and
\* RegisterTablet uncalled.
C3_NoCallAfterFailedStage ==
  \A k \in BootstrapStages :
    failed = k =>
      \A j \in (StageIndex(k) + 1)..Len(BootstrapSequence) :
        calls[BootstrapSequence[j]] = 0

C3_Witness ==
  /\ failed = "LoadOrCreate"
  /\ calls["LoadOrCreate"] = 1
  /\ twitter_tablet_ = "null"

\* C4: an iteration of FlushThread that reads usage u against threshold t
\* invokes Flush() if and only if u > t; with u <= t (u = t included) it
\* goes straight to its sleep and issues no call on the tablet.
C4_FlushIffAbove ==
  [][Len(flush_log') = Len(flush_log) + 1 =>
       LET it == flush_log'[Len(flush_log')]
           above == Less(it.t, it.u)
       IN /\ above => /\ calls'["Flush"] = calls["Flush"] + 1
                      /\ flush_pc' = "in_flush"
          /\ ~above => /\ calls'["Flush"] = calls["Flush"]
                       /\ flush_pc' = "sleep"
                       /\ calls'["Compact"] = calls["Compact"]
                       /\ UNCHANGED <<twitter_tablet_, flush_tablet,
                                      compactVars>>]_vars

C4_Witness ==
  /\ Len(flush_log) = 1
  /\ flush_log[1].u = flush_log[1].t
  /\ flush_log[1].u = Bytes(67108864)
  /\ flush_pc = "sleep"
  /\ calls["Flush"] = 0

\* C5: after Flush() has returned a failure the process is aborted and
\* neither thread issues another usage check, Flush or Compact call.
C5_FlushFailureTerminates ==
  /\ [](failed = "Flush" => aborted)
  /\ [][failed = "Flush" =>
          /\ calls' = calls
          /\ flush_log' = flush_log
          /\ flush_pc' = flush_pc /\ compact_pc' = compact_pc]_vars

C5_Witness ==
  /\ failed = "Flush"
  /\ calls["Flush"] = 1
  /\ flush_pc = "in_flush"
  /\ compact_pc = "call" /\ calls["Compact"] < MaxCompactIter

\* C6: after Compact() has returned a failure on its n-th invocation the
\* number of Compact calls stays n and no further Flush is issued.
C6_CompactFailureTerminates ==
  [][failed = "Compact" =>
       /\ calls'["Compact"] = calls["Compact"]
       /\ calls'["Flush"] = calls["Flush"]
       /\ calls'["MemRowSetSize"] = calls["MemRowSetSize"]
       /\ aborted']_vars

C6_Witness ==
  /\ failed = "Compact"
  /\ calls["Compact"] = 2
  /\ compact_sleeps = 1
  /\ flush_pc = "check" /\ Len(flush_log) < MaxFlushIter

\* C7: CompactThread invokes Compact(COMPACT_NO_FLAGS) once per iteration
\* whatever the usage, then sleeps 3000 ms: the calls and the sleeps
\* alternate, starting with a call.
C7_CompactOncePerInterval ==
  /\ compact_flags \subseteq {COMPACT_NO_FLAGS}
  /\ compact_clock = 3000 * compact_sleeps
  /\ compact_pc = "none" => calls["Compact"] = 0 /\ compact_sleeps = 0
  /\ compact_pc = "call" => calls["Compact"] = compact_sleeps
  /\ compact_pc \in {"in_compact", "sleep"} =>
       calls["Compact"] = compact_sleeps + 1
  /\ (Running /\ compact_pc = "call" /\ calls["Compact"] < MaxCompactIter)
       => ENABLED CompactCall

C7_Witness ==
  /\ calls["Compact"] = 2
  /\ compact_sleeps = 1
  /\ compact_clock = 3000
  /\ compact_pc = "in_compact"
  /\ flush_log # <<>> /\ ~flush_log[1].flushed

\* C8: for every value v of flush_threshold_mb the threshold expression the
\* FlushThread evaluates equals v * 1,048,576.
C8_ThresholdIsFlagTimesMB ==
  \A i \in 1..Len(flush_log) :
    flush_log[i].e = [mb |-> FLAGS_flush_threshold_mb, b |-> 0]

\* C9: whenever the FlushThread runs, the threshold it uses is greater
\* than zero, for every value the flag can be given.
C9_ThresholdPositive ==
  \A i \in 1..Len(flush_log) : Less(Bytes(0), flush_log[i].t)

ReadingsAbove == {i \in 1..Len(flush_log) : Less(flush_log[i].t, flush_log[i].u)}

\* C10: whether iteration i flushes depends on the reading of iteration i
\* only: the number of Flush calls equals the number of readings above the
\* threshold, and with a threshold of 64 MB the readings 10 MB, 70 MB, 70 MB
\* flush in iterations 2 and 3 and not in iteration 1.
C10_FlushPerReadingAbove ==
  /\ calls["Flush"] = Cardinality(ReadingsAbove)
  /\ \A i \in 1..Len(flush_log) : flush_log[i].flushed <=> i \in ReadingsAbove
  /\ (/\ FLAGS_flush_threshold_mb = 64
      /\ Len(flush_log) >= 3
      /\ flush_log[1].u = Bytes(10485760)
      /\ flush_log[2].u = Bytes(73400320)
      /\ flush_log[3].u = Bytes(73400320))
     => /\ ~flush_log[1].flushed
        /\ flush_log[2].flushed
        /\ flush_log[3].flushed
        /\ \A i \in 1..3 : flush_log[i].t = Bytes(67108864)

C10_Witness ==
  /\ FLAGS_flush_threshold_mb = 64
  /\ Len(flush_log) = 3
  /\ flush_log[1].u = Bytes(10485760)
  /\ flush_log[2].u = Bytes(73400320)
  /\ flush_log[3].u = Bytes(73400320)
  /\ calls["Flush"] = 2

\* C11: while the process runs, the next step of each maintenance thread
\* is enabled whatever the other thread is doing: a thread waits only for
\* its own sleep and its own Flush or Compact call.
C11_TasksNeverWaitOnEachOther ==
  Running =>
    /\ (flush_pc = "check" /\ Len(flush_log) < MaxFlushIter)
         => ENABLED FlushCheck
    /\ flush_pc = "in_flush" => ENABLED FlushReturn
    /\ flush_pc = "sleep" => ENABLED FlushSleep
    /\ (compact_pc = "call" /\ calls["Compact"] < MaxCompactIter)
         => ENABLED CompactCall
    /\ compact_pc = "in_compact" => ENABLED CompactReturn
    /\ compact_pc = "sleep" => ENABLED CompactSleep

C11_Witness ==
  /\ Running
  /\ compact_pc = "in_compact"
  /\ flush_pc = "sleep"
  /\ flush_sleeps = 1

\* C12: no mutual exclusion or order is imposed between the two threads:
\* a Compact can be issued while a Flush is in progress and a Flush while a
\* Compact is in progress, on the same tablet, so both are in progress at
\* once; the overlap is reached in both orders.
C12_FlushAndCompactOverlap ==
  /\ (Running /\ inflight["Flush"] = 1 /\ compact_pc = "call"
        /\ calls["Compact"] < MaxCompactIter)
       => ENABLED (CompactCall /\ inflight'["Flush"] = 1
                               /\ inflight'["Compact"] = 1)
  /\ (Running /\ inflight["Compact"] = 1 /\ flush_pc = "check"
        /\ Len(flush_log) < MaxFlushIter
        /\ FLAGS_flush_threshold_mb = 64)
       => ENABLED (FlushCheck /\ inflight'["Flush"] = 1
                              /\ inflight'["Compact"] = 1)
  /\ overlaps # {} => flush_tablet = compact_tablet

C12_Witness ==
  /\ overlaps = {"flush_then_compact", "compact_then_flush"}
  /\ inflight["Flush"] = 1 /\ inflight["Compact"] = 1
  /\ flush_pc = "in_flush" /\ compact_pc = "in_compact"
  /\ flush_tablet = "twitter" /\ compact_tablet = "twitter"

\* C13: at most one Flush and at most one Compact issued by the threads is
\* in progress at any time, both threads work on the one tablet the
\* bootstrap produced, and that handle is never reassigned.
C13_OneCallPerTaskOneHandle ==
  /\ [](/\ inflight["Flush"] \in {0, 1}
        /\ inflight["Compact"] \in {0, 1}
        /\ inflight["Flush"] = 1 => flush_pc = "in_flush"
        /\ inflight["Compact"] = 1 => compact_pc = "in_compact"
        /\ flush_pc # "none" =>
             flush_tablet = "twitter" /\ flush_tablet = twitter_tablet_
        /\ compact_pc # "none" =>
             compact_tablet = "twitter" /\ compact_tablet = twitter_tablet_)
  /\ [][/\ twitter_tablet_ # "null" => twitter_tablet_' = twitter_tablet_
        /\ flush_tablet # "null" => flush_tablet' = flush_tablet
        /\ compact_tablet # "null" => compact_tablet' = compact_tablet]_vars

C13_Witness ==
  /\ inflight["Flush"] = 1
  /\ calls["Flush"] = 2
  /\ calls["Compact"] = 2 /\ inflight["Compact"] = 0
  /\ flush_tablet = twitter_tablet_ /\ compact_tablet = twitter_tablet_

\* C14: unless the process is aborted or main returns, under fair
\* scheduling the FlushThread checks the usage infinitely often and the
\* CompactThread invokes Compact infinitely often; once main has reached its
\* final loop it never leaves it and never returns.
C14_LoopsNeverStop ==
  /\ \/ <>aborted
     \/ <>(exit_status # <<>>)
     \/ /\ []<>(flush_pc = "check") /\ []<>(flush_pc = "sleep")
        /\ []<>(compact_pc = "in_compact") /\ []<>(compact_pc = "sleep")
  /\ [][pc = "serving" => pc' = "serving" /\ exit_status' = <<>>]_vars
  /\ [][/\ flush_pc # "none" => flush_pc' # "none"
        /\ compact_pc # "none" => compact_pc' # "none"]_vars

C14_Witness ==
  /\ Running
  /\ pc = "serving" /\ server_started /\ main_sleeps = MaxMainSleeps
  /\ flush_pc = "check" /\ flush_sleeps = MaxFlushIter
  /\ compact_pc = "in_compact" /\ compact_sleeps = MaxCompactIter

\* Bootstrap completed without an error and everything main starts is up.
FullyStarted ==
  /\ failed = "none"
  /\ \A i \in 1..Len(BootstrapSequence) : calls[BootstrapSequence[i]] = 1
  /\ peer_state = "Started" /\ registered
  /\ compact_pc # "none" /\ flush_pc # "none"
  /\ server_started

\* C15: when the store holds nothing for the tablet, LoadOrCreate creates
\* the metadata instead of failing, and unless a collaborator reports an
\* error (or the command line is rejected) the execution eventually has the
\* peer Started and registered, both threads launched and the server started.
C15_FreshIdentityBootstraps ==
  /\ []((Running /\ pc = "load_meta" /\ metadata_store = "absent")
          => ENABLED (LoadOrCreate /\ meta' = "created" /\ ~aborted'
                                   /\ failed' = "none"))
  /\ [][(pc = "load_meta" /\ pc' = "open" /\ metadata_store = "absent")
          => meta' = "created" /\ metadata_store' = "present"]_vars
  /\ metadata_store = "absent"
       => \/ <>(failed # "none")
          \/ <>(exit_status # <<>>)
          \/ <>FullyStarted

C15_Witness ==
  /\ meta = "created"
  /\ metadata_store = "present"
  /\ pc = "open"
  /\ failed = "none" /\ ~aborted

NoReadingAbove ==
  \A i \in 1..Len(flush_log) : ~Less(flush_log[i].t, flush_log[i].u)

\* C16: the usage checks of the FlushThread and its 250 ms sleeps alternate,
\* starting with a check; while no reading exceeds the threshold the thread
\* does nothing else between two checks.
C16_FlushPollsEvery250ms ==
  /\ flush_clock = 250 * flush_sleeps
  /\ calls["MemRowSetSize"] = Len(flush_log)
  /\ flush_pc = "none" => Len(flush_log) = 0 /\ flush_sleeps = 0
  /\ flush_pc = "check" => Len(flush_log) = flush_sleeps
  /\ flush_pc \in {"in_flush", "sleep"} => Len(flush_log) = flush_sleeps + 1
  /\ NoReadingAbove =>
       /\ calls["Flush"] = 0 /\ inflight["Flush"] = 0
       /\ flush_pc # "in_flush"

C16_Witness ==
  /\ FLAGS_flush_threshold_mb = 64
  /\ Len(flush_log) = 3 /\ NoReadingAbove
  /\ flush_log[3].u = Bytes(67108864)
  /\ flush_sleeps = 2 /\ flush_clock = 500
  /\ flush_pc = "sleep"

\* C17: the bootstrap runs once and is complete before any usage check,
\* Flush or Compact is issued, and server.Start() is called only after both
\* threads were launched, so that a maintenance call can be in progress
\* before request serving has started.
C17_MaintenanceAfterBootstrap ==
  /\ \A i \in 1..Len(BootstrapSequence) : calls[BootstrapSequence[i]] <= 1
  /\ (\/ compact_pc # "none" \/ flush_pc # "none"
      \/ calls["MemRowSetSize"] > 0 \/ calls["Flush"] > 0
      \/ calls["Compact"] > 0)
       => /\ registered /\ peer_state = "Started"
          /\ \A i \in 1..Len(BootstrapSequence) :
               calls[BootstrapSequence[i]] = 1 /\ trace[i].ok
  /\ calls["ServerStart"] <= 1
  /\ calls["ServerStart"] > 0 => compact_pc # "none" /\ flush_pc # "none"

C17_Witness ==
  /\ pc = "server_start" /\ calls["ServerStart"] = 0 /\ ~server_started
  /\ inflight["Compact"] = 1
  /\ calls["Flush"] = 1

\* C18: server.Init() is called before any bootstrap stage, and when it
\* fails the process aborts with no other call made and no thread launched.
C18_ServerInitFirst ==
  /\ (trace # <<>> \/ twitter_tablet_ # "null" \/ meta # "null")
       => calls["ServerInit"] = 1 /\ failed # "ServerInit"
  /\ failed = "ServerInit" =>
       /\ aborted
       /\ trace = <<>>
       /\ \A c \in Callees \ {"ServerInit"} : calls[c] = 0
       /\ compact_pc = "none" /\ flush_pc = "none"
       /\ twitter_tablet_ = "null" /\ meta = "null" /\ peer_state = "none"
       /\ ~registered /\ ~server_started

C18_Witness ==
  /\ failed = "ServerInit"
  /\ aborted
  /\ calls["ServerInit"] = 1
  /\ pc = "server_init"

\* C19: with a positional argument left (argc # 1) main returns 1 without
\* aborting and without any call, bootstrap stage or thread; main returns on
\* no other path.
C19_UsageErrorReturnsOne ==
  /\ (pc # "parse" /\ argc # 1) => exit_status = <<1>> /\ pc = "returned"
  /\ pc = "returned" <=> exit_status # <<>>
  /\ exit_status # <<>> =>
       /\ exit_status = <<1>> /\ argc # 1
       /\ ~aborted /\ failed = "none"
       /\ \A c \in Callees : calls[c] = 0
       /\ trace = <<>>
       /\ compact_pc = "none" /\ flush_pc = "none"
       /\ twitter_tablet_ = "null" /\ peer_state = "none"
       /\ ~registered /\ ~server_started

C19_Witness ==
  /\ exit_status = <<1>>
  /\ argc = 2
  /\ pc = "returned"
====
